---------------------------- MODULE Spec2Model ----------------------------
(***************************************************************************)
(* Sales trend analysis pipeline: complete_task6.py imports a CSV file     *)
(* into the SQLite table online_sales, runs a catalog of four aggregation  *)
(* queries and renders each result; render_results.py re-runs the catalog  *)
(* against the store the first program left behind.                        *)
(*                                                                         *)
(* Values.  A nullable value (pandas NaN, Python None, SQL NULL) is the    *)
(* empty tuple NULL, a present value v is the tuple <<v>>.  Text is a      *)
(* sequence of one-character strings.  Amounts are integers counting       *)
(* thousandths, so that ROUND(x, 2) has something to round.                *)
(***************************************************************************)
EXTENDS Integers, Sequences, FiniteSets, TLC

NULL == <<>>
Some(v) == <<v>>
IsNull(x) == x = NULL
Get(x) == x[1]

(***************************************************************************)
(* A CSV cell as pandas hands it to the loop: NaN, a number, or text that  *)
(* int() and float() reject.  v is the number, or the identity of the text.*)
(***************************************************************************)
NaN == [t |-> "nan", v |-> 0]
Num(n) == [t |-> "num", v |-> n]
Str(n) == [t |-> "str", v |-> n]
notna(cell) == cell.t # "nan"

RawRow(o, y, m, s, p) ==
  [ORDERNUMBER |-> o, YEAR_ID |-> y, MONTH_ID |-> m, SALES |-> s, PRODUCTCODE |-> p]

(***************************************************************************)
(* f"{year:04d}-{month:02d}-01"                                            *)
(***************************************************************************)
DigitChars == <<"0", "1", "2", "3", "4", "5", "6", "7", "8", "9">>
IsDigit(c) == \E i \in 1..10 : DigitChars[i] = c
DigitVal(c) == (CHOOSE i \in 1..10 : DigitChars[i] = c) - 1

RECURSIVE Dec(_)
Dec(n) == IF n < 10 THEN <<DigitChars[n + 1]>>
          ELSE Append(Dec(n \div 10), DigitChars[(n % 10) + 1])

RECURSIVE PadLeft(_, _)
PadLeft(s, w) == IF Len(s) >= w THEN s ELSE PadLeft(<<"0">> \o s, w)

\* Python's and C's zero-padded integer format: the sign counts in the width,
\* and a number wider than the width is never cut.
FormatInt(n, w) == IF n < 0 THEN <<"-">> \o PadLeft(Dec(-n), w - 1)
                   ELSE PadLeft(Dec(n), w)

FormatDate(year, month) ==
  FormatInt(year, 4) \o <<"-">> \o FormatInt(month, 2) \o <<"-", "0", "1">>

FallbackYear == 2003
FallbackMonth == 1

(***************************************************************************)
(* One iteration of the transform loop.  int(), float() raise on text;     *)
(* str() never raises.                                                     *)
(***************************************************************************)
CastRaises(cell) == cell.t = "str"

\* Variant: the order number is not cast, so unparseable text in it passes.
CoercionRaises_IgnoreOrder(row) ==
  \/ CastRaises(row.YEAR_ID)
  \/ CastRaises(row.MONTH_ID)
  \/ CastRaises(row.SALES)

CoercionRaises(row) ==
  \/ CastRaises(row.ORDERNUMBER)
  \/ CastRaises(row.YEAR_ID)
  \/ CastRaises(row.MONTH_ID)
  \/ CastRaises(row.SALES)

Normalize(row) ==
  LET year == IF notna(row.YEAR_ID) THEN row.YEAR_ID.v ELSE FallbackYear
      month == IF notna(row.MONTH_ID) THEN row.MONTH_ID.v ELSE FallbackMonth
  IN [order_id |-> IF notna(row.ORDERNUMBER) THEN Some(row.ORDERNUMBER.v) ELSE NULL,
      order_date |-> FormatDate(year, month),
      amount |-> IF notna(row.SALES) THEN Some(row.SALES.v) ELSE NULL,
      product_id |-> IF notna(row.PRODUCTCODE) THEN Some(row.PRODUCTCODE.v) ELSE NULL]

\* Variant: the loop leaves at the first row that raises (break for continue).
RECURSIVE Transform_Break(_)
Transform_Break(df) ==
  IF df = <<>> THEN <<>>
  ELSE IF CoercionRaises(Head(df)) THEN <<>>
  ELSE <<Normalize(Head(df))>> \o Transform_Break(Tail(df))

RECURSIVE Transform(_)
Transform(df) ==
  IF df = <<>> THEN <<>>
  ELSE IF CoercionRaises(Head(df)) THEN Transform(Tail(df))
  ELSE <<Normalize(Head(df))>> \o Transform(Tail(df))

(***************************************************************************)
(* SQLite's strftime('%Y', order_date) and strftime('%m', order_date): the *)
(* text is parsed as YYYY-MM-DD (an optional leading minus, exactly four   *)
(* digits, two digits in 1..12, two digits in 1..31, nothing after) and    *)
(* the field is printed back; text that does not parse gives NULL.         *)
(***************************************************************************)
ParseDate(s) ==
  LET neg == Len(s) > 0 /\ s[1] = "-"
      t == IF neg THEN Tail(s) ELSE s
      wellFormed == /\ Len(t) = 10
                    /\ \A i \in {1, 2, 3, 4, 6, 7, 9, 10} : IsDigit(t[i])
                    /\ t[5] = "-"
                    /\ t[8] = "-"
      Y == 1000 * DigitVal(t[1]) + 100 * DigitVal(t[2]) + 10 * DigitVal(t[3]) + DigitVal(t[4])
      M == 10 * DigitVal(t[6]) + DigitVal(t[7])
      D == 10 * DigitVal(t[9]) + DigitVal(t[10])
  IN IF wellFormed /\ M \in 1..12 /\ D \in 1..31
     THEN Some([Y |-> IF neg THEN -Y ELSE Y, M |-> M, D |-> D])
     ELSE NULL

strftimeY(s) == LET d == ParseDate(s) IN IF IsNull(d) THEN NULL ELSE Some(FormatInt(Get(d).Y, 4))
strftimeM(s) == LET d == ParseDate(s) IN IF IsNull(d) THEN NULL ELSE Some(FormatInt(Get(d).M, 2))

(***************************************************************************)
(* SQL comparison of the grouping columns: NULL sorts before every text,   *)
(* text compares byte by byte.                                             *)
(***************************************************************************)
CharCode(c) == IF c = "-" THEN 45 ELSE 48 + DigitVal(c)

RECURSIVE TextLess(_, _)
TextLess(a, b) ==
  IF b = <<>> THEN FALSE
  ELSE IF a = <<>> THEN TRUE
  ELSE IF CharCode(Head(a)) # CharCode(Head(b)) THEN CharCode(Head(a)) < CharCode(Head(b))
  ELSE TextLess(Tail(a), Tail(b))

ColLess(a, b) == IF IsNull(a) THEN ~IsNull(b)
                 ELSE ~IsNull(b) /\ TextLess(Get(a), Get(b))

YearMonthLess(r1, r2) ==
  \/ ColLess(r1.year, r2.year)
  \/ r1.year = r2.year /\ ColLess(r1.month, r2.month)

MonthLess(r1, r2) == ColLess(r1.month, r2.month)

\* Variant: DESC left out.
RevenueAscLess(r1, r2) ==
  \/ r1.monthly_revenue < r2.monthly_revenue
  \/ r1.monthly_revenue = r2.monthly_revenue /\ YearMonthLess(r1, r2)

\* ORDER BY monthly_revenue DESC, year, month: the name monthly_revenue is the
\* alias of the result column, so the rounded value is what is compared.
RevenueDescLess(r1, r2) ==
  \/ r1.monthly_revenue > r2.monthly_revenue
  \/ r1.monthly_revenue = r2.monthly_revenue /\ YearMonthLess(r1, r2)

Less(order, r1, r2) ==
  CASE order = "year, month" -> YearMonthLess(r1, r2)
    [] order = "month" -> MonthLess(r1, r2)
    [] order = "monthly_revenue DESC, year, month" -> RevenueDescLess(r1, r2)

RECURSIVE OrderBy(_, _)
OrderBy(S, order) ==
  IF S = {} THEN <<>>
  ELSE LET first == CHOOSE x \in S : \A y \in S \ {x} : ~Less(order, y, x)
       IN <<first>> \o OrderBy(S \ {first}, order)

(***************************************************************************)
(* Aggregates.  SUM skips NULL and is NULL when it has nothing to add;     *)
(* COALESCE(amount, 0) turns NULL into 0 first; COUNT(amount) counts the   *)
(* non-NULL amounts; ROUND(x, 2) rounds half away from zero to hundredths  *)
(* (ten thousandths).                                                      *)
(***************************************************************************)
COALESCE(x, d) == IF IsNull(x) THEN d ELSE Get(x)

RECURSIVE SumCoalesce(_)
SumCoalesce(rs) == IF rs = <<>> THEN 0
                   ELSE COALESCE(Head(rs).amount, 0) + SumCoalesce(Tail(rs))

CountAmount(rs) == Len(SelectSeq(rs, LAMBDA r : ~IsNull(r.amount)))

\* Variant: SUM(COALESCE(amount, 0)) written for SUM(amount).
SumSkipNulls_Zero(rs) == Some(SumCoalesce(rs))

SumSkipNulls(rs) == IF CountAmount(rs) = 0 THEN NULL ELSE Some(SumCoalesce(rs))

ROUND2(x) == IF x < 0 THEN -(((-x + 5) \div 10) * 10) ELSE ((x + 5) \div 10) * 10

ROUND2N(x) == IF IsNull(x) THEN NULL ELSE Some(ROUND2(Get(x)))

\* The grouping columns of one row, computed once per row.
GroupKey(r) == [year |-> strftimeY(r.order_date), month |-> strftimeM(r.order_date)]

Keyed(rows) == [i \in DOMAIN rows |-> [key |-> GroupKey(rows[i]), amount |-> rows[i].amount]]

GroupKeys(kr) == {kr[i].key : i \in DOMAIN kr}

Members(kr, g) == SelectSeq(kr, LAMBDA r : r.key = g)

Limit(s, n) == SubSeq(s, 1, IF Len(s) < n THEN Len(s) ELSE n)

TargetYear == <<"2", "0", "0", "4">>
TopN == 3

(***************************************************************************)
(* The catalog of complete_task6.py.                                       *)
(***************************************************************************)
\* Variant: COUNT(amount) written for COUNT(*).
RevenueRow_CountAmount(g, ms) ==
  [year |-> g.year, month |-> g.month,
   monthly_revenue |-> ROUND2(SumCoalesce(ms)),
   order_count |-> CountAmount(ms)]

RevenueRow(g, ms) ==
  [year |-> g.year, month |-> g.month,
   monthly_revenue |-> ROUND2(SumCoalesce(ms)),
   order_count |-> Len(ms)]

monthly_revenue(rows) ==
  LET kr == Keyed(rows)
  IN OrderBy({RevenueRow(g, Members(kr, g)) : g \in GroupKeys(kr)}, "year, month")

monthly_revenue_2004(rows) ==
  LET kr == SelectSeq(Keyed(rows), LAMBDA r : r.key.year = Some(TargetYear))
  IN OrderBy({RevenueRow(g, Members(kr, g)) : g \in GroupKeys(kr)}, "month")

monthly(rows) ==
  LET kr == Keyed(rows)
  IN {[year |-> g.year, month |-> g.month,
       monthly_revenue |-> SumCoalesce(Members(kr, g))] : g \in GroupKeys(kr)}

top3_months(rows) ==
  Limit(OrderBy({[year |-> m.year, month |-> m.month,
                  monthly_revenue |-> ROUND2(m.monthly_revenue)] : m \in monthly(rows)},
                "monthly_revenue DESC, year, month"),
        TopN)

NullsRow(g, ms) ==
  [year |-> g.year, month |-> g.month,
   sum_skipping_nulls |-> ROUND2N(SumSkipNulls(ms)),
   sum_treating_nulls_as_zero |-> ROUND2(SumCoalesce(ms)),
   total_orders |-> Len(ms),
   orders_with_amount |-> CountAmount(ms)]

monthly_nulls(rows) ==
  LET kr == Keyed(rows)
  IN OrderBy({NullsRow(g, Members(kr, g)) : g \in GroupKeys(kr)}, "year, month")

\* render_results.py keeps the two sums only.
NullsRowRender(g, ms) ==
  [year |-> g.year, month |-> g.month,
   sum_skipping_nulls |-> ROUND2N(SumSkipNulls(ms)),
   sum_treating_nulls_as_zero |-> ROUND2(SumCoalesce(ms))]

monthly_nulls_render(rows) ==
  LET kr == Keyed(rows)
  IN OrderBy({NullsRowRender(g, Members(kr, g)) : g \in GroupKeys(kr)}, "year, month")

Keys == <<"monthly_revenue", "monthly_revenue_2004", "top3_months", "monthly_nulls">>

queries(key, rows) ==
  CASE key = "monthly_revenue" -> monthly_revenue(rows)
    [] key = "monthly_revenue_2004" -> monthly_revenue_2004(rows)
    [] key = "top3_months" -> top3_months(rows)
    [] key = "monthly_nulls" -> monthly_nulls(rows)

queries_render(key, rows) ==
  CASE key = "monthly_revenue" -> monthly_revenue(rows)
    [] key = "monthly_revenue_2004" -> monthly_revenue_2004(rows)
    [] key = "top3_months" -> top3_months(rows)
    [] key = "monthly_nulls" -> monthly_nulls_render(rows)

(***************************************************************************)
(* The environment of a run: the bytes of sales_data_sample.csv, the paths *)
(* that cannot be written, and the store file online_sales.db.             *)
(***************************************************************************)
encodings == <<"utf-8", "latin-1", "cp1252", "iso-8859-1">>

\* The input file: "utf8" decodes under every encoding of the list; "legacy"
\* holds bytes that are no UTF-8 (latin-1 maps every byte, so it decodes);
\* "unreadable" is missing, empty or no table at all, and read_csv raises
\* something other than UnicodeDecodeError.
Files == {"utf8", "legacy", "unreadable"}

read_csv(f, encoding) ==
  CASE f = "unreadable" -> "Exception"
    [] f = "legacy" /\ encoding = "utf-8" -> "UnicodeDecodeError"
    [] OTHER -> "ok"

\* Variant: a decoding error ends the loop like any other exception.
TryEncodings_StopAtFirst(f, encs) ==
  IF encs = <<>> THEN NULL
  ELSE IF read_csv(f, Head(encs)) = "ok" THEN Some(Head(encs)) ELSE NULL

\* The encoding the loop settles on, or NULL when the function returns None.
RECURSIVE TryEncodings(_, _)
TryEncodings(f, encs) ==
  IF encs = <<>> THEN NULL
  ELSE CASE read_csv(f, Head(encs)) = "ok" -> Some(Head(encs))
         [] read_csv(f, Head(encs)) = "UnicodeDecodeError" -> TryEncodings(f, Tail(encs))
         [] OTHER -> NULL

DocName == "interview_answers.md"
Outputs == {Keys[i] : i \in DOMAIN Keys} \cup {DocName}

NoFile == [file |-> FALSE, hasTable |-> FALSE, rows |-> <<>>]

unlink(s) == NoFile
connect(s) == IF s.file THEN s ELSE [file |-> TRUE, hasTable |-> FALSE, rows |-> <<>>]
DropTableIfExists(s) == [s EXCEPT !.hasTable = FALSE, !.rows = <<>>]
CreateTable(s) == [s EXCEPT !.hasTable = TRUE, !.rows = <<>>]
executemany(s, data) == [s EXCEPT !.rows = @ \o data]

\* Variant: an incremental load, the file kept and the table created only when
\* it is missing.
LoadStore_Incremental(s, data) ==
  executemany(IF connect(s).hasTable THEN connect(s) ELSE CreateTable(connect(s)), data)

\* The store after create_database_and_import_data has committed.
LoadStore(s, data) ==
  executemany(CreateTable(DropTableIfExists(connect(IF s.file THEN unlink(s) ELSE s))), data)

VARIABLES
  csv,         \* the rows of the input file
  file,        \* its kind, in Files
  unwritable,  \* the output paths that cannot be written
  store,       \* online_sales.db
  prog,        \* the program of the current run
  pc,          \* its position
  conn,        \* its connection: "none", "open", "closed"
  qi,          \* index in Keys of the next catalog query
  results,     \* key -> the result set read_sql_query returned this run
  report,      \* key -> "pending", "saved", "empty" or "error"
  produced,    \* the files written this run
  nrecords,    \* len(transformed_data)
  count,       \* SELECT COUNT(*) FROM online_sales after the commit
  first,       \* what the first import and catalog of this input gave
  rerun        \* whether an import and catalog of this input came before this run

vars == <<csv, file, unwritable, store, prog, pc, conn, qi, results, report,
          produced, nrecords, count, first, rerun>>

env == <<csv, file, unwritable>>

Ended == {"done", "exited", "crashed"}
AtRest == {"idle"} \cup Ended

Pending == [k \in Outputs \ {DocName} |-> "pending"]
NoResults == [k \in Outputs \ {DocName} |-> <<>>]
NoFirst == [set |-> FALSE, count |-> 0, results |-> NoResults]

InitWith(csvs, files, unwritables, stores) ==
  /\ csv \in csvs
  /\ file \in files
  /\ unwritable \in unwritables
  /\ store \in stores
  /\ prog = "none"
  /\ pc = "idle"
  /\ conn = "none"
  /\ qi = 1
  /\ results = NoResults
  /\ report = Pending
  /\ produced = {}
  /\ nrecords = 0
  /\ count = 0
  /\ first = NoFirst
  /\ rerun = FALSE

(***************************************************************************)
(* complete_task6.py                                                       *)
(***************************************************************************)
\* main up to the call of run_queries_and_generate_screenshots: the whole of
\* create_database_and_import_data and the test of what it returned.
T6_Import ==
  /\ pc \in AtRest
  /\ prog' = "complete_task6"
  /\ results' = NoResults
  /\ report' = Pending
  /\ produced' = {}
  /\ qi' = 1
  /\ IF IsNull(TryEncodings(file, encodings))
     THEN /\ store' = IF store.file THEN unlink(store) ELSE store
          /\ conn' = "none"
          /\ nrecords' = 0
          /\ count' = 0
          /\ pc' = "exited"
     ELSE LET transformed_data == Transform(csv)
          IN /\ store' = LoadStore(store, transformed_data)
             /\ conn' = "open"
             /\ nrecords' = Len(transformed_data)
             /\ count' = Len(store'.rows)
             /\ pc' = "t6_queries"
  /\ rerun' = first.set
  /\ UNCHANGED <<env, first>>

\* One iteration of the loop over queries.items().
T6_Query ==
  /\ pc = "t6_queries"
  /\ LET key == Keys[qi]
         raised == ~store.hasTable
         df == IF raised THEN <<>> ELSE queries(key, store.rows)
         outcome == CASE raised -> "error"
                      [] df = <<>> -> "empty"
                      [] key \in unwritable -> "error"
                      [] OTHER -> "saved"
     IN /\ results' = [results EXCEPT ![key] = df]
        /\ report' = [report EXCEPT ![key] = outcome]
        /\ produced' = IF outcome = "saved" THEN produced \cup {key} ELSE produced
        /\ first' = IF qi = Len(Keys) /\ ~first.set
                    THEN [set |-> TRUE, count |-> count, results |-> results']
                    ELSE first
  /\ qi' = qi + 1
  /\ pc' = IF qi = Len(Keys) THEN "t6_answers" ELSE pc
  /\ UNCHANGED <<env, store, prog, conn, nrecords, count, rerun>>

\* generate_interview_answers: open() raises when the path cannot be written,
\* and nothing in main catches it.
T6_Answers ==
  /\ pc = "t6_answers"
  /\ IF DocName \in unwritable
     THEN pc' = "crashed" /\ produced' = produced
     ELSE pc' = "t6_close" /\ produced' = produced \cup {DocName}
  /\ UNCHANGED <<env, store, prog, conn, qi, results, report, nrecords, count, first, rerun>>

T6_Close ==
  /\ pc = "t6_close"
  /\ conn' = "closed"
  /\ pc' = "done"
  /\ UNCHANGED <<env, store, prog, qi, results, report, produced, nrecords, count, first, rerun>>

(***************************************************************************)
(* render_results.py                                                       *)
(***************************************************************************)
R_Connect ==
  /\ pc \in AtRest
  /\ prog' = "render_results"
  /\ store' = connect(store)
  /\ conn' = "open"
  /\ results' = NoResults
  /\ report' = Pending
  /\ produced' = {}
  /\ qi' = 1
  /\ nrecords' = 0
  /\ count' = 0
  /\ pc' = "r_queries"
  /\ rerun' = first.set
  /\ UNCHANGED <<env, first>>

\* One iteration of the loop: no handler, and save_table_as_image does not
\* test for an empty frame, so ax.table indexes the first row of none.
R_Query ==
  /\ pc = "r_queries"
  /\ LET key == Keys[qi]
         raised == ~store.hasTable
         df == IF raised THEN <<>> ELSE queries_render(key, store.rows)
         outcome == CASE raised -> "error"
                      [] df = <<>> -> "error"
                      [] key \in unwritable -> "error"
                      [] OTHER -> "saved"
     IN /\ results' = [results EXCEPT ![key] = df]
        /\ report' = [report EXCEPT ![key] = outcome]
        /\ produced' = IF outcome = "saved" THEN produced \cup {key} ELSE produced
        /\ pc' = CASE outcome = "error" -> "crashed"
                   [] qi = Len(Keys) -> "r_close"
                   [] OTHER -> pc
  /\ qi' = qi + 1
  /\ UNCHANGED <<env, store, prog, conn, nrecords, count, first, rerun>>

R_Close ==
  /\ pc = "r_close"
  /\ conn' = "closed"
  /\ pc' = "done"
  /\ UNCHANGED <<env, store, prog, qi, results, report, produced, nrecords, count, first, rerun>>

Next ==
  \/ T6_Import
  \/ T6_Query
  \/ T6_Answers
  \/ T6_Close
  \/ R_Connect
  \/ R_Query
  \/ R_Close

(***************************************************************************)
(* Inputs.  Three specifications share the programs and differ in what the *)
(* input file and the environment range over.                              *)
(***************************************************************************)
SeqUpTo(S, n) == UNION {[1..k -> S] : k \in 0..n}

Rows(O, Y, M, S, P) ==
  {RawRow(o, y, m, s, p) : o \in O, y \in Y, m \in M, s \in S, p \in P}

\* A store an earlier run on another file left behind.
PriorCsv == <<RawRow(Num(10099), Num(2004), Num(11), Num(2500), Str(2)),
              RawRow(Num(10098), Num(2004), Num(11), NaN, Str(2))>>
PriorStore == LoadStore(NoFile, Transform(PriorCsv))

\* Control flow: few rows, every kind of file, every set of unwritable paths,
\* with or without a store from before.
MaxRowsRun == 1
RunRows == Rows({Num(10100), Str(7)}, {NaN, Num(2004)}, {Num(2)}, {Num(1004)}, {Str(1)})
Init == InitWith(SeqUpTo(RunRows, MaxRowsRun), Files, SUBSET Outputs, {NoFile, PriorStore})
Spec == Init /\ [][Next]_vars

\* Loading: every way a cell can be missing, unparseable or out of range.
MaxRowsLoad == 2
LoadRows == Rows({NaN, Num(10100), Str(7)}, {NaN, Num(2004), Num(10000)},
                 {NaN, Num(2), Num(13)}, {Num(1004)}, {Str(1)})
            \cup Rows({Num(10100)}, {Num(2004)}, {Num(2)}, {NaN, Str(9)}, {NaN, Str(1)})
            \cup Rows({Num(10100)}, {Str(8)}, {Str(8)}, {Num(1004)}, {Str(1)})
InitLoad == InitWith(SeqUpTo(LoadRows, MaxRowsLoad), {"utf8"}, {{}}, {NoFile})
SpecLoad == InitLoad /\ [][Next]_vars

\* Aggregation: enough rows for more groups than the catalog's limit.
MaxRowsAgg == 4
AggRows == Rows({Num(10100)}, {NaN, Num(2004)}, {NaN, Num(2)}, {Num(1004)}, {Str(1)})
           \cup Rows({Num(10100)}, {Num(2004)}, {Num(2), Num(13)}, {NaN}, {Str(1)})
InitAgg == InitWith(SeqUpTo(AggRows, MaxRowsAgg), {"utf8"}, {{}}, {NoFile})
SpecAgg == InitAgg /\ [][Next]_vars

(***************************************************************************)
(* What the properties below are stated with: the table and the input file *)
(* read directly, without the operators the programs are modelled by.      *)
(***************************************************************************)
CatalogKeys == Outputs \ {DocName}

\* The query ran against a table this run and its result is in results.
Ran(key) == store.hasTable /\ report[key] # "pending"

\* The (year, month) each row of the table gives, and the indices of the rows
\* whose (year, month) is that of result row r.
Extracted(rows) == [i \in DOMAIN rows |-> [year |-> strftimeY(rows[i].order_date),
                                           month |-> strftimeM(rows[i].order_date)]]

InGroup(ex, r) == {i \in DOMAIN ex : ex[i].year = r.year /\ ex[i].month = r.month}

WithAmount(rows, I) == {i \in I : rows[i].amount # NULL}

RECURSIVE AmountSum(_, _)
AmountSum(rows, I) ==
  IF I = {} THEN 0
  ELSE LET i == CHOOSE j \in I : TRUE
       IN (IF rows[i].amount = NULL THEN 0 ELSE rows[i].amount[1]) + AmountSum(rows, I \ {i})

\* r is x rounded to 2 decimals: a whole number of hundredths nearest to x.
IsRounded2(r, x) == r % 10 = 0 /\ r - x \in -5..5

RECURSIVE TextToNat(_)
TextToNat(t) == IF t = <<>> THEN 0
                ELSE 10 * TextToNat(SubSeq(t, 1, Len(t) - 1)) + DigitVal(t[Len(t)])

\* (year, month) as one number, an absent pair before every present one.
YearMonthRank(r) == IF r.year = NULL \/ r.month = NULL THEN -1
                    ELSE 100 * TextToNat(r.year[1]) + TextToNat(r.month[1])

\* The input rows no cast of which raises, and the place of each in the table.
Unparseable(cell) == cell.t = "str"
Kept == {i \in DOMAIN csv : /\ ~Unparseable(csv[i].ORDERNUMBER)
                            /\ ~Unparseable(csv[i].YEAR_ID)
                            /\ ~Unparseable(csv[i].MONTH_ID)
                            /\ ~Unparseable(csv[i].SALES)}
Place(i) == Cardinality({j \in Kept : j <= i})

\* complete_task6.py has imported the file in this run.
Imported == prog = "complete_task6" /\ conn # "none"

NoEncodingParses == \A i \in DOMAIN encodings : read_csv(file, encodings[i]) # "ok"

(***************************************************************************)
(* C1.  monthly_revenue returns exactly one row per distinct (year, month) *)
(* extracted from order_date; its monthly_revenue is the sum of the        *)
(* group's amounts with absent counted as 0, rounded to 2 decimals, its    *)
(* order_count the number of rows of the group; rows come in ascending     *)
(* (year, month) order.                                                    *)
(***************************************************************************)
C1_MonthlyRevenue ==
  Ran("monthly_revenue") =>
    LET df == results["monthly_revenue"]
        rows == store.rows
        ex == Extracted(rows)
    IN /\ \A i \in DOMAIN rows : \E j \in DOMAIN df : i \in InGroup(ex, df[j])
       /\ \A j \in DOMAIN df :
            LET G == InGroup(ex, df[j])
            IN /\ G # {}
               /\ df[j].order_count = Cardinality(G)
               /\ IsRounded2(df[j].monthly_revenue, AmountSum(rows, G))
       /\ \A j, k \in DOMAIN df : j < k => YearMonthRank(df[j]) < YearMonthRank(df[k])

\* Two groups, one of them with an absent amount beside a present one and a
\* sum that rounding changes.
C1_Witness ==
  /\ Ran("monthly_revenue")
  /\ Len(results["monthly_revenue"]) >= 2
  /\ \E j \in DOMAIN results["monthly_revenue"] :
       LET G == InGroup(Extracted(store.rows), results["monthly_revenue"][j])
       IN /\ WithAmount(store.rows, G) # G
          /\ AmountSum(store.rows, G) % 10 # 0

(***************************************************************************)
(* C2, as stated.  In every row of monthly_nulls,                          *)
(* sum_treating_nulls_as_zero is the sum of the group's amounts with       *)
(* absent counted as 0; sum_skipping_nulls is that same sum when a row of  *)
(* the group has an amount and is absent exactly when none has;            *)
(* total_orders counts the rows, orders_with_amount the rows with an       *)
(* amount, so it is less than total_orders when an amount is absent.       *)
(***************************************************************************)
C2_AsStated ==
  (prog = "complete_task6" /\ Ran("monthly_nulls")) =>
    LET ex == Extracted(store.rows) IN
    \A j \in DOMAIN results["monthly_nulls"] :
      LET r == results["monthly_nulls"][j]
          G == InGroup(ex, r)
          A == WithAmount(store.rows, G)
      IN /\ r.sum_treating_nulls_as_zero = AmountSum(store.rows, G)
         /\ (A # {} => r.sum_skipping_nulls = Some(AmountSum(store.rows, G)))
         /\ (r.sum_skipping_nulls = NULL <=> A = {})
         /\ r.total_orders = Cardinality(G)
         /\ r.orders_with_amount = Cardinality(A)
         /\ (A # G => r.orders_with_amount < r.total_orders)

(***************************************************************************)
(* C2, amended.  The same, with both sums rounded to 2 decimals: the sum   *)
(* with absent as 0 is rounded, and sum_skipping_nulls is that rounded     *)
(* value when a row of the group has an amount.                            *)
(***************************************************************************)
C2_MonthlyNulls ==
  (prog = "complete_task6" /\ Ran("monthly_nulls")) =>
    LET ex == Extracted(store.rows) IN
    \A j \in DOMAIN results["monthly_nulls"] :
      LET r == results["monthly_nulls"][j]
          G == InGroup(ex, r)
          A == WithAmount(store.rows, G)
      IN /\ IsRounded2(r.sum_treating_nulls_as_zero, AmountSum(store.rows, G))
         /\ (A # {} => r.sum_skipping_nulls = Some(r.sum_treating_nulls_as_zero))
         /\ (r.sum_skipping_nulls = NULL <=> A = {})
         /\ r.total_orders = Cardinality(G)
         /\ r.orders_with_amount = Cardinality(A)
         /\ (A # G => r.orders_with_amount < r.total_orders)

\* A group with amounts present and absent, and a group with none present.
C2_Witness ==
  /\ prog = "complete_task6"
  /\ Ran("monthly_nulls")
  /\ \E j, k \in DOMAIN results["monthly_nulls"] :
       LET G == InGroup(Extracted(store.rows), results["monthly_nulls"][j])
           H == InGroup(Extracted(store.rows), results["monthly_nulls"][k])
       IN /\ WithAmount(store.rows, G) # {}
          /\ WithAmount(store.rows, G) # G
          /\ H # {}
          /\ WithAmount(store.rows, H) = {}

(***************************************************************************)
(* C3.  top3_months returns at most 3 rows, by revenue descending and, at  *)
(* equal revenue, by (year, month) ascending; each is a row of             *)
(* monthly_revenue with the same rounded revenue; no group left out has a  *)
(* revenue above that of a returned one.                                   *)
(***************************************************************************)
C3_TopMonths ==
  (Ran("monthly_revenue") /\ Ran("top3_months")) =>
    LET top == results["top3_months"]
        all == results["monthly_revenue"]
        Same(a, t) == a.year = t.year /\ a.month = t.month
    IN /\ Len(top) <= 3
       /\ \A j, k \in DOMAIN top : j < k =>
            \/ top[j].monthly_revenue > top[k].monthly_revenue
            \/ /\ top[j].monthly_revenue = top[k].monthly_revenue
               /\ YearMonthRank(top[j]) < YearMonthRank(top[k])
       /\ \A j \in DOMAIN top : \E i \in DOMAIN all :
            Same(all[i], top[j]) /\ all[i].monthly_revenue = top[j].monthly_revenue
       /\ \A i \in DOMAIN all :
            (\A j \in DOMAIN top : ~Same(all[i], top[j])) =>
               \A j \in DOMAIN top : all[i].monthly_revenue <= top[j].monthly_revenue

\* More groups than the limit, a tie among the returned ones, and a group
\* left out for its lower revenue.
C3_Witness ==
  /\ Ran("monthly_revenue")
  /\ Ran("top3_months")
  /\ Len(results["monthly_revenue"]) > 3
  /\ Len(results["top3_months"]) = 3
  /\ results["top3_months"][1].monthly_revenue = results["top3_months"][2].monthly_revenue
  /\ \E i \in DOMAIN results["monthly_revenue"] :
       results["monthly_revenue"][i].monthly_revenue < results["top3_months"][3].monthly_revenue

(***************************************************************************)
(* C4, as stated.  A row whose order number is unparseable while its       *)
(* amount, year and month are valid is in the table after the import, with *)
(* order_id absent and its amount.                                         *)
(***************************************************************************)
ValidDate(row) == /\ row.YEAR_ID.t = "num" /\ row.YEAR_ID.v \in 0..9999
                  /\ row.MONTH_ID.t = "num" /\ row.MONTH_ID.v \in 1..12

CatalogDone == prog = "complete_task6" /\ pc \in {"t6_answers", "t6_close", "done", "crashed"}

C5_Idempotent ==
  CatalogDone =>
    /\ Len(store.rows) = nrecords
    /\ count = nrecords
    /\ nrecords = Cardinality(Kept)
    /\ first.set
    /\ count = first.count
    /\ results = first.results

\* A second run over the store the first one left, with rows and results.
C5_Witness ==
  /\ CatalogDone
  /\ pc = "done"
  /\ rerun
  /\ nrecords >= 1
  /\ results["monthly_revenue"] # <<>>

(***************************************************************************)
(* C6.  When a catalog query fails or returns no rows, no artifact is      *)
(* produced for it, the run is not aborted, and every remaining query is   *)
(* still executed and rendered: a run that opened the store ends with      *)
(* every query executed, and with an artifact for exactly the queries that *)
(* neither failed nor came back empty.                                     *)
(***************************************************************************)
C6_Isolation ==
  (pc \in Ended /\ conn # "none") =>
    \A k \in CatalogKeys :
      /\ report[k] # "pending"
      /\ k \in produced <=> report[k] = "saved"
      /\ (results[k] = <<>> => k \notin produced)

\* The same of complete_task6.py alone, whose loop catches what a query or
\* its rendering raises.
C6_IsolationTask6 == prog = "complete_task6" => C6_Isolation

(***************************************************************************)
(* C7, as stated.  If no encoding parses the file the run halts with no    *)
(* table, no query executed and no artifact; and a run halts for no other  *)
(* failure.                                                                *)
(***************************************************************************)
HaltsClean ==
  /\ pc = "exited"
  /\ conn = "none"
  /\ ~store.hasTable
  /\ \A k \in CatalogKeys : report[k] = "pending"
  /\ produced = {}

C8_SkipAndCount ==
  Imported =>
    /\ Len(store.rows) = Cardinality(Kept)
    /\ \A i \in Kept : store.rows[Place(i)] = Normalize(csv[i])
    /\ nrecords = Len(csv) - Cardinality(DOMAIN csv \ Kept)
    /\ count = nrecords

\* A skipped row with a loaded row after it.
C8_Witness ==
  /\ Imported
  /\ Len(csv) = 2
  /\ 1 \notin Kept
  /\ 2 \in Kept
  /\ count = 1

(***************************************************************************)
(* C9.  Every row of the table has an order_date of the form YYYY-MM-01,   *)
(* with 2003 for an absent year and 01 for an absent month, and every      *)
(* query extracts a year and a month from it.                              *)
(***************************************************************************)
IsYYYYMM01(s) ==
  /\ Len(s) = 10
  /\ \A i \in {1, 2, 3, 4, 6, 7} : IsDigit(s[i])
  /\ s[5] = "-"
  /\ SubSeq(s, 8, 10) = <<"-", "0", "1">>

C9_DateForm ==
  /\ \A j \in DOMAIN store.rows :
       /\ IsYYYYMM01(store.rows[j].order_date)
       /\ strftimeY(store.rows[j].order_date) # NULL
       /\ strftimeM(store.rows[j].order_date) # NULL
  /\ Imported =>
       \A i \in Kept :
         /\ csv[i].YEAR_ID.t = "nan" =>
              SubSeq(store.rows[Place(i)].order_date, 1, 4) = <<"2", "0", "0", "3">>
         /\ csv[i].MONTH_ID.t = "nan" =>
              SubSeq(store.rows[Place(i)].order_date, 6, 7) = <<"0", "1">>

(***************************************************************************)
(* C10.  On every path on which a connection was opened, the connection is *)
(* closed before the run ends.                                             *)
(***************************************************************************)
C10_ConnectionReleased == pc \in Ended => conn # "open"

=============================================================================
